---- MODULE Spec2Model ----
(***************************************************************************)
(* yolov3_train.py: main() as a state machine.                             *)
(*                                                                         *)
(* main() parses the arguments, resolves the negative entries of --steps   *)
(* against --iteration, registers the extensions on a chainer Trainer      *)
(* whose stop trigger is (args.iteration, 'iteration'), and runs it.  The  *)
(* Trainer's loop, the interval triggers and MinValueTrigger are chainer's;*)
(* they are modelled here as the calls of main() configure them.           *)
(* DarknetShift and CropSizeUpdater live in lib/extensions and are         *)
(* modelled from the specification's description of them.                  *)
(*                                                                         *)
(* Numbers: a loss is a positive integer, 0 stands for "no value           *)
(* reported".  A scale is given in tenths (1 is 0.1, 10 is 1.0).  A        *)
(* learning rate after burn-in is [num, exp]: 0.001 * num / 10^exp.        *)
(***************************************************************************)
EXTENDS Integers, Sequences, FiniteSets, TLC

VARIABLES
    args,             \* the parsed arguments (never written after parsing)
    data,             \* the data sets: the loss values they can produce
    steps,            \* the list args.steps / steps (one object, rewritten in place)
    i,                \* the index of the loop of lines 140-142
    pc,               \* where main() is
    shift,            \* the arguments DarknetShift was constructed with
    updater_iteration,\* updater.iteration
    pending,          \* device workers of the step in progress, not yet done
    joined,           \* the workers that had completed when the optimizer last stepped
    optimizer,        \* optimizer.lr and optimizer.t (number of updates)
    crop_size,        \* the training set's crop size
    prev,             \* lr and crop size before the last pass of the extensions
    observation,      \* trainer.observation of the current iteration
    summary,          \* MinValueTrigger's summary of the key since its last check
    best_value,       \* MinValueTrigger's best value (<<>> is None)
    checks,           \* every completed check of MinValueTrigger, in order
    log,              \* iterations at which LogReport emitted an entry
    snapshot_writes,  \* iterations at which yolov3_snapshot.npz was written
    backup_writes,    \* iterations at which yolov3_backup.npz was written
    final_writes      \* iterations at which yolov3_final.npz was written

vars == <<args, data, steps, i, pc, shift, updater_iteration, pending, joined,
          optimizer, crop_size, prev, observation, summary, best_value, checks,
          log, snapshot_writes, backup_writes, final_writes>>

----------------------------------------------------------------------------
(* Bounds of the model.                                                    *)

MaxIter == 6          \* --iteration in the short runs: 1..MaxIter
MaxInterval == 3      \* --display_interval, --snapshot_interval: 1..MaxInterval
MaxLoss == 3          \* losses: 1..MaxLoss
MaxStepsLen == 3      \* length of a --steps list in the resolution runs
MaxStepAbs == 2       \* entries of such a list: -MaxStepAbs..MaxStepAbs
LongSpan == 2         \* the long runs: --iteration in burn_in+3 .. burn_in+3+LongSpan

(* Program constants.                                                      *)

burn_in == 1000           \* DarknetShift(..., burn_in=1000, ...)
CropCutoffBack == 200     \* args.iteration - 200
DefaultSteps == <<-10200, -5200>>
DefaultScales == <<1, 1>>  \* [0.1, 0.1], in tenths

----------------------------------------------------------------------------
(* Helpers.                                                                *)

Range(s) == {s[k] : k \in 1..Len(s)}

SeqsUpTo(S, n) == UNION {[1..m -> S] : m \in 0..n}

IsSorted(s) == \A k \in 1..(Len(s) - 1) : s[k] <= s[k + 1]

Last(s) == s[Len(s)]

----------------------------------------------------------------------------
(* Lines 139-142: a negative entry of --steps counts from the end.          *)

ResolveEntryNonPositive(total, v) == IF v <= 0 THEN total + v ELSE v

ResolveEntrySignSlip(total, v) == IF v < 0 THEN total - v ELSE v

ResolveEntry(total, v) == IF v < 0 THEN total + v ELSE v

(* Lines 84-92: the updater's device workers.  With at most one GPU a      *)
(* StandardUpdater computes on one device; otherwise a ParallelUpdater      *)
(* gets the dictionary {'main': gpus[0], 'gpu<g>': g for g in gpus[1:]}.    *)

GpuKey(g) == CASE g = 0 -> "gpu0" [] g = 1 -> "gpu1" [] g = 2 -> "gpu2" [] OTHER -> "gpuN"

DevicesPerEntry(gpus) ==
    IF Len(gpus) = 0 THEN [k \in {"main"} |-> -1]
    ELSE [k \in {"main"} \cup {GpuKey(gpus[j]) : j \in 1..Len(gpus)} |->
            IF k = "main" THEN gpus[1]
            ELSE CHOOSE g \in Range(gpus) : GpuKey(g) = k]

Devices(gpus) ==
    IF Len(gpus) = 0 THEN [k \in {"main"} |-> -1]
    ELSE [k \in {"main"} \cup {GpuKey(gpus[j]) : j \in 2..Len(gpus)} |->
            IF k = "main" THEN gpus[1]
            ELSE CHOOSE g \in Range(gpus) : GpuKey(g) = k]

(* ParallelUpdater adds every replica's gradients to the main model before  *)
(* optimizer.update(): the step waits for every device.                     *)

Joined(p) == p = {}

(* (n, 'iteration') as a trigger: chainer's IntervalTrigger fires when the  *)
(* iteration count is a positive multiple of n.                             *)

IntervalTrigger(period, it) == it > 0 /\ it % period = 0

(* Lines 96-97.                                                             *)
display_interval == args.display_interval

snapshot_interval == args.snapshot_interval

(* Lines 93-94: the stop trigger of the Trainer.                            *)

StopPeriodOneMore == args.iteration + 1

StopPeriod == args.iteration

StopTrigger(it) == IntervalTrigger(StopPeriod, it)

(* Lines 135-137: the trigger of the "final" snapshot.                      *)

FinalPeriodSnapshot == args.snapshot_interval

FinalPeriod == args.iteration

(* Lines 132-134: the trigger of the "backup" snapshot.                     *)

BackupPeriodDisplay == args.display_interval

BackupPeriod == snapshot_interval

(* Lines 99-107: the key MinValueTrigger follows.                           *)

snapshot_key == IF args.valid THEN "validation/main/loss" ELSE "main/loss"

KeyValue(obs) == IF snapshot_key = "validation/main/loss" THEN obs.val ELSE obs.main

(* Lines 128-131: MinValueTrigger(snapshot_key, snapshot_interval) keeps    *)
(* the mean of the key since its last check and fires when there is no best *)
(* value yet or the best value is greater than the new one.                 *)

MeanLess(a, b) == a.sum * b.n < b.sum * a.n

MinValueFiresOrEqual(best, value) == best = <<>> \/ ~MeanLess(best[1], value)

MinValueFires(best, value) == best = <<>> \/ MeanLess(value, best[1])

(* Lines 151-153: the candidate crop sizes and the cutoff.                  *)

CropSizes == [k \in 1..5 |-> (10 + (k - 1)) * 32]

CropCutoffLate == args.iteration + CropCutoffBack

CropCutoff == args.iteration - CropCutoffBack

(* CropSizeUpdater: below the cutoff the size grows through the candidates  *)
(* as a step function of the iteration; from the cutoff on it stays.        *)

CropSizeAt(sizes, cutoff, t) ==
    IF t < cutoff THEN sizes[1 + ((t * Len(sizes)) \div cutoff)]
    ELSE sizes[Len(sizes)]

(* DarknetShift, policy 'steps': a ramp below burn_in, then the base rate   *)
(* multiplied by the scale of every step that has been reached.  For a list *)
(* of steps that is not non-decreasing the outcome is not defined: either   *)
(* every reached step counts, or only those before the first unreached one. *)

Reached(st, t) == {k \in 1..Len(st) : st[k] <= t}

ReachedPrefix(st, t) == {k \in 1..Len(st) : \A j \in 1..k : st[j] <= t}

RECURSIVE Product(_, _)
Product(sc, ks) ==
    IF ks = {} THEN 1
    ELSE LET k == CHOOSE x \in ks : TRUE IN sc[k] * Product(sc, ks \ {k})

ScaledRate(sh, ks) ==
    [ramp |-> FALSE, at |-> 0, num |-> Product(sh.scales, ks), exp |-> Cardinality(ks)]

DarknetShiftRates(sh, t) ==
    IF t < sh.burn_in THEN {[ramp |-> TRUE, at |-> t, num |-> 0, exp |-> 0]}
    ELSE {ScaledRate(sh, Reached(sh.steps, t)), ScaledRate(sh, ReachedPrefix(sh.steps, t))}

----------------------------------------------------------------------------
(* The runs.                                                               *)

Config(n, di, si, gpus, valid, st, sc, losses) ==
    [a |-> [iteration |-> n, display_interval |-> di, snapshot_interval |-> si,
            gpus |-> gpus, valid |-> valid, steps |-> st, scales |-> sc],
     d |-> [losses |-> losses]]

TrainConfigs ==
    {Config(n, di, si, <<>>, v, DefaultSteps, DefaultScales, 1..MaxLoss) :
        n \in 1..MaxIter, di \in 1..MaxInterval, si \in 1..MaxInterval, v \in BOOLEAN}
    \cup
    {Config(n, 1, 1, g, FALSE, DefaultSteps, DefaultScales, {1}) :
        n \in 1..MaxIter, g \in SeqsUpTo(0..1, 3)}

InitWith(cs) ==
    \E c \in cs :
        /\ args = c.a
        /\ data = c.d
        /\ steps = c.a.steps
        /\ i = 0
        /\ pc = "resolve"
        /\ shift = <<>>
        /\ updater_iteration = 0
        /\ pending = {}
        /\ joined = {}
        /\ optimizer = [lr |-> [ramp |-> FALSE, at |-> 0, num |-> 1, exp |-> 0], t |-> 0]
        /\ crop_size = 0
        /\ prev = [lr |-> <<>>, crop |-> 0]
        /\ observation = [main |-> 0, val |-> 0]
        /\ summary = [sum |-> 0, n |-> 0]
        /\ best_value = <<>>
        /\ checks = <<>>
        /\ log = <<>>
        /\ snapshot_writes = <<>>
        /\ backup_writes = <<>>
        /\ final_writes = <<>>

(* Runs that vary the --steps list.                                         *)
StepsConfigs ==
    {Config(n, 2, 1, <<>>, v, st, [k \in 1..Len(st) |-> 5], {1}) :
        n \in 1..MaxIter, v \in BOOLEAN,
        st \in SeqsUpTo((-MaxStepAbs)..MaxStepAbs, MaxStepsLen)}

(* Runs that pass the burn-in and the crop cutoff.                          *)
LongSteps == {-3, -1, 1, burn_in - 1, burn_in, burn_in + 1, burn_in + 2}

LongConfigs ==
    {Config(n, 250, 500, <<0>>, FALSE, st, [k \in 1..Len(st) |-> IF k = 1 THEN 5 ELSE 2], {1}) :
        n \in (burn_in + 3)..(burn_in + 3 + LongSpan), st \in SeqsUpTo(LongSteps, 2)}
    \cup
    {Config(burn_in + 3, 2, 1, <<0, 1>>, TRUE, DefaultSteps, DefaultScales, {1})}

Init == InitWith(TrainConfigs)

InitSteps == InitWith(StepsConfigs)

InitLong == InitWith(LongConfigs)

runState == <<updater_iteration, pending, joined, optimizer, crop_size, prev,
              observation, summary, best_value, checks, log, snapshot_writes,
              backup_writes, final_writes>>

(* Lines 140-142, one pass of the loop body.                                *)
ResolveStep ==
    /\ pc = "resolve"
    /\ i < Len(steps)
    /\ steps' = [steps EXCEPT ![i + 1] = ResolveEntry(args.iteration, steps[i + 1])]
    /\ i' = i + 1
    /\ UNCHANGED <<args, data, pc, shift>>
    /\ UNCHANGED runState

(* Lines 143-167 up to the loop of trainer.run(): the schedule extensions   *)
(* are constructed with the list as it is now, and set the rate and the     *)
(* crop size of iteration 0.                                                *)
StartRun ==
    /\ pc = "resolve"
    /\ i = Len(steps)
    /\ shift' = [steps |-> steps, scales |-> args.scales, burn_in |-> burn_in,
                 max_batches |-> args.iteration]
    /\ \E r \in DarknetShiftRates(shift', 0) :
          optimizer' = [optimizer EXCEPT !.lr = r]
    /\ crop_size' = CropSizeAt(CropSizes, CropCutoff, 0)
    /\ prev' = [lr |-> optimizer.lr, crop |-> crop_size]
    /\ pc' = "run"
    /\ UNCHANGED <<args, data, steps, i, updater_iteration, pending, joined,
                   observation, summary, best_value, checks, log, snapshot_writes,
                   backup_writes, final_writes>>

(* trainer.run(): while not stop_trigger(trainer).                          *)
TrainerStop ==
    /\ pc = "run"
    /\ StopTrigger(updater_iteration)
    /\ pc' = "done"
    /\ UNCHANGED <<args, data, steps, i, shift>>
    /\ UNCHANGED runState

(* updater.update() begins: one batch, one part of it to every device.      *)
BeginUpdate ==
    /\ pc = "run"
    /\ ~StopTrigger(updater_iteration)
    /\ pc' = "step"
    /\ pending' = DOMAIN Devices(args.gpus)
    /\ observation' = [main |-> 0, val |-> 0]
    /\ UNCHANGED <<args, data, steps, i, shift, updater_iteration, joined, optimizer,
                   crop_size, prev, summary, best_value, checks, log, snapshot_writes,
                   backup_writes, final_writes>>

(* One device finishes the forward and backward pass of its part.           *)
WorkerDone ==
    /\ pc = "step"
    /\ \E k \in pending : pending' = pending \ {k}
    /\ UNCHANGED <<args, data, steps, i, pc, shift, updater_iteration, joined,
                   optimizer, crop_size, prev, observation, summary, best_value,
                   checks, log, snapshot_writes, backup_writes, final_writes>>

(* The gradients are reduced, the optimizer steps once, the iteration       *)
(* counter advances and the loss is reported.                               *)
OptimizerUpdate ==
    /\ pc = "step"
    /\ Joined(pending)
    /\ joined' = DOMAIN Devices(args.gpus) \ pending
    /\ pending' = {}
    /\ optimizer' = [optimizer EXCEPT !.t = @ + 1]
    /\ updater_iteration' = updater_iteration + 1
    /\ \E l \in data.losses : observation' = [main |-> l, val |-> 0]
    /\ pc' = "extend"
    /\ UNCHANGED <<args, data, steps, i, shift, crop_size, prev, summary, best_value,
                   checks, log, snapshot_writes, backup_writes, final_writes>>

(* The pass over the extensions after an update, in the order of their      *)
(* priorities: Evaluator, LogReport, the schedule extensions, then the      *)
(* three snapshot_object extensions in the order they were registered.      *)

EvaluatorFires == args.valid /\ IntervalTrigger(display_interval, updater_iteration)

EvaluatorValues == IF EvaluatorFires THEN data.losses ELSE {0}

Observed(v) == [observation EXCEPT !.val = v]

Summed(obs) ==
    IF KeyValue(obs) # 0
    THEN [sum |-> summary.sum + KeyValue(obs), n |-> summary.n + 1]
    ELSE summary

Readers(v, r) ==
    /\ observation' = Observed(v)
    /\ log' = IF IntervalTrigger(display_interval, updater_iteration)
              THEN Append(log, updater_iteration) ELSE log
    /\ optimizer' = [optimizer EXCEPT !.lr = r]
    /\ crop_size' = CropSizeAt(CropSizes, CropCutoff, updater_iteration)
    /\ prev' = [lr |-> optimizer.lr, crop |-> crop_size]

(* The pass completes.                                                      *)
Extensions ==
    /\ pc = "extend"
    /\ \E v \in EvaluatorValues, r \in DarknetShiftRates(shift, updater_iteration) :
        LET value == Summed(Observed(v))
            check == IntervalTrigger(snapshot_interval, updater_iteration)
            fires == check /\ MinValueFires(best_value, value)
        IN  /\ ~(check /\ value.n = 0)
            /\ Readers(v, r)
            /\ summary' = IF check THEN [sum |-> 0, n |-> 0] ELSE value
            /\ best_value' = IF fires THEN <<value>> ELSE best_value
            /\ checks' = IF check
                         THEN Append(checks, [at |-> updater_iteration, sum |-> value.sum,
                                              n |-> value.n, fired |-> fires])
                         ELSE checks
            /\ snapshot_writes' = IF fires THEN Append(snapshot_writes, updater_iteration)
                                  ELSE snapshot_writes
            /\ backup_writes' = IF IntervalTrigger(BackupPeriod, updater_iteration)
                                THEN Append(backup_writes, updater_iteration)
                                ELSE backup_writes
            /\ final_writes' = IF IntervalTrigger(FinalPeriod, updater_iteration)
                               THEN Append(final_writes, updater_iteration)
                               ELSE final_writes
    /\ pc' = "run"
    /\ UNCHANGED <<args, data, steps, i, shift, updater_iteration, pending, joined>>

(* MinValueTrigger's check finds no value of its key reported since the     *)
(* last check: the KeyError ends the run before the snapshots are taken.    *)
ExtensionsKeyError ==
    /\ pc = "extend"
    /\ \E v \in EvaluatorValues, r \in DarknetShiftRates(shift, updater_iteration) :
        /\ IntervalTrigger(snapshot_interval, updater_iteration)
        /\ Summed(Observed(v)).n = 0
        /\ Readers(v, r)
    /\ pc' = "crashed"
    /\ UNCHANGED <<args, data, steps, i, shift, updater_iteration, pending, joined,
                   summary, best_value, checks, snapshot_writes, backup_writes,
                   final_writes>>

Next ==
    \/ ResolveStep
    \/ StartRun
    \/ TrainerStop
    \/ BeginUpdate
    \/ WorkerDone
    \/ OptimizerUpdate
    \/ Extensions
    \/ ExtensionsKeyError

Spec == Init /\ [][Next]_vars

SpecSteps == InitSteps /\ [][Next]_vars

SpecLong == InitLong /\ [][Next]_vars

----------------------------------------------------------------------------
(* Properties.                                                             *)

N == args.iteration

Resolved(k) == IF args.steps[k] < 0 THEN N + args.steps[k] ELSE args.steps[k]

ResolvedList == [k \in 1..Len(args.steps) |-> Resolved(k)]

Started == pc # "resolve"

BetweenSteps == pc \in {"run", "done"}

(* C1: every entry v < 0 of --steps is replaced by iteration + v and every  *)
(* entry v >= 0 is left as it is, position by position: while the loop runs *)
(* the entries before the index are resolved and the others untouched; the  *)
(* length never changes; and the resolved list is the one DarknetShift is   *)
(* constructed with.                                                        *)
C1_StepsResolved ==
    /\ Len(steps) = Len(args.steps)
    /\ \A k \in 1..Len(steps) :
          steps[k] = IF k <= i THEN Resolved(k) ELSE args.steps[k]
    /\ Started => i = Len(steps) /\ shift.steps = ResolvedList

C1_Witness ==
    /\ pc = "run"
    /\ Len(args.steps) = 3
    /\ args.steps[1] < 0 /\ args.steps[2] = 0 /\ args.steps[3] > 0
    /\ shift.steps = <<N + args.steps[1], 0, args.steps[3]>>

(* C8 as stated: a non-decreasing --steps list, entries of both signs       *)
(* included, resolves to a non-decreasing list.                             *)
C8_SortedStaysSorted ==
    (Started /\ IsSorted(args.steps)) => IsSorted(shift.steps)

SignChangeInOrder ==
    \A k \in 1..(Len(args.steps) - 1) :
        (args.steps[k] < 0 /\ args.steps[k + 1] >= 0) => N + args.steps[k] <= args.steps[k + 1]

SameSign ==
    \/ \A k \in 1..Len(args.steps) : args.steps[k] < 0
    \/ \A k \in 1..Len(args.steps) : args.steps[k] >= 0

(* C8, amended: a non-decreasing --steps list whose entries are all         *)
(* negative or all non-negative resolves to a non-decreasing list; one that *)
(* mixes the signs resolves to a non-decreasing list exactly when iteration *)
(* plus its last negative entry is at most its first non-negative entry.    *)
C8_SortedStaysSortedSameSign ==
    (Started /\ IsSorted(args.steps)) =>
        /\ IsSorted(shift.steps) <=> SignChangeInOrder
        /\ SameSign => IsSorted(shift.steps)

C8_Witness ==
    /\ pc = "run"
    /\ IsSorted(args.steps)
    /\ Len(args.steps) = 3
    /\ args.steps[1] < 0 /\ args.steps[2] < 0 /\ args.steps[1] < args.steps[2]
    /\ args.steps[3] > 0
    /\ IsSorted(shift.steps)

(* C9 as stated: a resolved step below 0 or above the total iteration count *)
(* is a configuration error, so no run with such a step gets as far as the  *)
(* training loop.                                                           *)
C9_OutOfRangeFailsFast ==
    Started => \A k \in 1..Len(shift.steps) : shift.steps[k] >= 0 /\ shift.steps[k] <= N

C3_FinalOnceAtEnd ==
    /\ pc = "done" => final_writes = <<N>>
    /\ final_writes \in {<<>>, <<N>>}
    /\ final_writes # <<>> => updater_iteration = N

C3_Witness ==
    /\ pc = "done"
    /\ N = 4
    /\ args.snapshot_interval = 2
    /\ final_writes = <<4>>
    /\ backup_writes = <<2, 4>>

EvaluationsIn(lo, hi) == Cardinality({t \in (lo + 1)..hi : t % args.display_interval = 0})

FirstMinimum ==
    CHOOSE k \in 1..Len(checks) :
        /\ \A j \in 1..Len(checks) : ~MeanLess(checks[j], checks[k])
        /\ \A j \in 1..(k - 1) : MeanLess(checks[k], checks[j])

(* C4: the best snapshot is checked at every multiple of snapshot_interval, *)
(* against the mean of the tracked key since the last check (the validation *)
(* loss of every evaluation when a validation set is given, the training    *)
(* loss of every iteration otherwise); it is written at exactly the checks  *)
(* whose value is strictly lower than that of every earlier check, so its   *)
(* last write is the check where the minimum over all checks first occurs.  *)
C4_BestOnStrictImprovement ==
    /\ BetweenSteps => Len(checks) = updater_iteration \div args.snapshot_interval
    /\ \A k \in 1..Len(checks) :
          /\ checks[k].at = k * args.snapshot_interval
          /\ checks[k].n = IF args.valid
                           THEN EvaluationsIn((k - 1) * args.snapshot_interval, checks[k].at)
                           ELSE args.snapshot_interval
          /\ checks[k].fired <=> \A j \in 1..(k - 1) : MeanLess(checks[k], checks[j])
    /\ Range(snapshot_writes) = {checks[k].at : k \in {j \in 1..Len(checks) : checks[j].fired}}
    /\ IsSorted(snapshot_writes)
    /\ checks # <<>> => Last(snapshot_writes) = checks[FirstMinimum].at

C4_Witness ==
    /\ pc = "done"
    /\ args.valid
    /\ Len(checks) = 4
    /\ checks[1].sum = 2 /\ checks[2].sum = 1 /\ checks[3].sum = 1 /\ checks[4].sum = 3
    /\ snapshot_writes = <<1, 2>>

Multiples(period, upto) == [k \in 1..(upto \div period) |-> k * period]

(* C5: between steps, yolov3_backup.npz has been written at exactly the     *)
(* positive multiples of snapshot_interval reached so far and the log at    *)
(* exactly those of display_interval; a run of 4 iterations with both       *)
(* intervals 2 ends with 2 log entries, 2 backup writes and 1 final write.  *)
C5_IntervalExtensions ==
    /\ BetweenSteps =>
          /\ backup_writes = Multiples(args.snapshot_interval, updater_iteration)
          /\ log = Multiples(args.display_interval, updater_iteration)
    /\ (pc = "done" /\ N = 4 /\ args.display_interval = 2 /\ args.snapshot_interval = 2) =>
          /\ Len(log) = 2
          /\ Len(backup_writes) = 2
          /\ Len(final_writes) = 1

C5_Witness ==
    /\ pc = "done"
    /\ N = 4
    /\ args.display_interval = 2
    /\ args.snapshot_interval = 1
    /\ log = <<2, 4>>
    /\ backup_writes = <<1, 2, 3, 4>>

(* What C10 says of the order of things: the optimizer steps once per      *)
(* iteration and only when every worker of the step is done; while a worker *)
(* is still computing neither the optimizer, nor the next step, nor the     *)
(* extensions can go ahead; outside a step no worker is computing.          *)
StepsAreJoined ==
    /\ optimizer.t = updater_iteration
    /\ pc # "step" => pending = {}
    /\ optimizer.t > 0 => joined = DOMAIN Devices(args.gpus)
    /\ (pc = "step" /\ pending # {}) =>
          (~ENABLED OptimizerUpdate /\ ~ENABLED BeginUpdate /\ ~ENABLED Extensions
           /\ ~ENABLED ExtensionsKeyError /\ ~ENABLED TrainerStop)
    /\ pc = "step" => (~ENABLED Extensions /\ ~ENABLED BeginUpdate)
    /\ pc = "extend" => (~ENABLED BeginUpdate /\ ~ENABLED OptimizerUpdate)

SeveralDevices == Cardinality(Range(args.gpus)) > 1

(* C10 as stated: with more than one device in --gpus a step has one worker *)
(* per configured device, joined before the single optimizer step, and the  *)
(* extensions run between steps.                                            *)
C10_OneWorkerPerDevice ==
    /\ (SeveralDevices /\ optimizer.t > 0) =>
          Cardinality(joined) = Cardinality(Range(args.gpus))
    /\ StepsAreJoined

(* C10, amended: a step has one worker for the first id of --gpus ('main')  *)
(* and one for every distinct id among the others, so a first id that comes *)
(* again later gets two workers; the workers are joined before the single   *)
(* optimizer step, and the extensions run between steps.                    *)
C10_OneWorkerPerKey ==
    /\ (Len(args.gpus) > 1 /\ optimizer.t > 0) =>
          /\ joined = {"main"} \cup {GpuKey(g) : g \in Range(Tail(args.gpus))}
          /\ Cardinality(joined) = 1 + Cardinality(Range(Tail(args.gpus)))
    /\ StepsAreJoined

C10_Witness ==
    /\ pc = "extend"
    /\ args.gpus = <<0, 1, 0>>
    /\ updater_iteration = 2
    /\ joined = {"main", "gpu0", "gpu1"}

RECURSIVE Pow10(_)
Pow10(e) == IF e = 0 THEN 1 ELSE 10 * Pow10(e - 1)

RateEq(a, b) ==
    /\ a.ramp = b.ramp
    /\ a.ramp => a.at = b.at
    /\ ~a.ramp => a.num * Pow10(b.exp) = b.num * Pow10(a.exp)

Times(r, ks) ==
    [r EXCEPT !.num = @ * Product(args.scales, ks), !.exp = @ + Cardinality(ks)]

ResolvedTo(t) == {k \in 1..Len(args.steps) : Resolved(k) = t}

AtRampStart ==
    (pc \in {"run", "step"} /\ updater_iteration = 0) =>
        (optimizer.lr.ramp /\ optimizer.lr.at = 0)

AfterBurnIn == pc = "run" /\ updater_iteration > burn_in /\ IsSorted(ResolvedList)

====
